---- MODULE Spec2Model ----
(***************************************************************************)
(* Black-Scholes option pricing (src/src/black_scholes.rs): construction   *)
(* of the model, price, greeks and the Newton-Raphson implied-volatility   *)
(* solver.                                                                 *)
(*                                                                         *)
(* f64 is modelled as: NaN, +Inf, -Inf, or a finite signed decimal         *)
(* fixed-point number with 12 fractional digits (three base-10^4 limbs)    *)
(* and an arbitrary-length integer part, held as a little-endian sequence  *)
(* of limbs so that no intermediate leaves TLC's 32-bit integers.  A       *)
(* finite result whose magnitude exceeds f64::MAX becomes +-Inf; a result  *)
(* smaller than half a unit (5e-13) rounds to 0, which is where the model  *)
(* is coarser than f64 (f64 only reaches 0 below 5e-324).  -0.0 is not     *)
(* distinguished from +0.0: the source never divides by a value that can   *)
(* be -0.0 and its only sign test (erf, x < 0.0) treats both alike.        *)
(***************************************************************************)
EXTENDS Integers, Sequences, FiniteSets, TLC

(***************************************************************************)
(* Natural numbers as little-endian limb sequences (no high zero limbs).   *)
(***************************************************************************)
Base == 100 * 100

One == <<0, 0, 0, 1>>

FracLimbs == Len(One) - 1

Limbs == Seq(Nat)

BNorm[s \in Limbs] ==
  IF s = <<>> THEN s
  ELSE IF s[Len(s)] = 0 THEN BNorm[SubSeq(s, 1, Len(s) - 1)] ELSE s

BCmpAt[a \in Limbs, b \in Limbs, i \in Nat] ==
  IF i = 0 THEN 0
  ELSE IF a[i] > b[i] THEN 1
  ELSE IF a[i] < b[i] THEN -1
  ELSE BCmpAt[a, b, i - 1]

BCmp[a \in Limbs, b \in Limbs] ==
  IF Len(a) > Len(b) THEN 1
  ELSE IF Len(a) < Len(b) THEN -1
  ELSE BCmpAt[a, b, Len(a)]

\* the limbs acc below i, then the limbs of a + b + c from i upwards
BAddC[a \in Limbs, b \in Limbs, i \in Nat, c \in Nat, acc \in Limbs] ==
  IF i > Len(a) /\ i > Len(b) THEN (IF c = 0 THEN acc ELSE Append(acc, c))
  ELSE LET x == (IF i <= Len(a) THEN a[i] ELSE 0)
                + (IF i <= Len(b) THEN b[i] ELSE 0) + c
       IN BAddC[a, b, i + 1, x \div Base, Append(acc, x % Base)]

BAdd[a \in Limbs, b \in Limbs] ==
  IF a = <<>> THEN b ELSE IF b = <<>> THEN a ELSE BAddC[a, b, 1, 0, <<>>]

\* a - b for a >= b
BSubC[a \in Limbs, b \in Limbs, i \in Nat, c \in Nat, acc \in Limbs] ==
  IF i > Len(a) THEN acc
  ELSE LET x == a[i] - (IF i <= Len(b) THEN b[i] ELSE 0) - c
       IN IF x < 0 THEN BSubC[a, b, i + 1, 1, Append(acc, x + Base)]
                   ELSE BSubC[a, b, i + 1, 0, Append(acc, x)]

BSub[a \in Limbs, b \in Limbs] == IF b = <<>> THEN a ELSE BNorm[BSubC[a, b, 1, 0, <<>>]]

\* a * k for 0 <= k <= Base
BMulSmallC[a \in Limbs, k \in Nat, i \in Nat, c \in Nat, acc \in Limbs] ==
  IF i > Len(a) THEN (IF c = 0 THEN acc ELSE Append(acc, c))
  ELSE LET x == a[i] * k + c
       IN BMulSmallC[a, k, i + 1, x \div Base, Append(acc, x % Base)]

BMulSmall[a \in Limbs, k \in Nat] ==
  IF k = 0 \/ a = <<>> THEN <<>> ELSE BMulSmallC[a, k, 1, 0, <<>>]

BShift[s \in Limbs, n \in Nat] == IF s = <<>> \/ n = 0 THEN s ELSE [i \in 1..n |-> 0] \o s

\* a times the limbs of b from j upwards is acc: a times the whole of b
BMulFrom[a \in Limbs, b \in Limbs, j \in Nat, acc \in Limbs] ==
  IF j = 0 THEN acc
  ELSE BMulFrom[a, b, j - 1, BAdd[BMulSmall[a, b[j]], BShift[acc, 1]]]

BMul[a \in Limbs, b \in Limbs] ==
  IF a = <<>> \/ b = <<>> THEN <<>>
  ELSE IF Len(a) >= Len(b) THEN BMulFrom[a, b, Len(b), <<>>]
  ELSE BMulFrom[b, a, Len(a), <<>>]

\* the largest d in lo..hi with d * b <= r (lo satisfies it)
BDigit[r \in Limbs, b \in Limbs, lo \in Nat, hi \in Nat] ==
  IF lo >= hi THEN lo
  ELSE LET mid == (lo + hi + 1) \div 2
       IN IF BCmp[BMulSmall[b, mid], r] <= 0
          THEN BDigit[r, b, mid, hi]
          ELSE BDigit[r, b, lo, mid - 1]

\* the top of r, seen from the position of b's top limb
BTop[r \in Limbs, n \in Nat] ==
  IF Len(r) < n THEN 0
  ELSE IF Len(r) = n THEN r[n]
  ELSE r[n + 1] * Base + r[n]

BUpTo[h \in Nat, n \in Nat] == IF h > n THEN n ELSE h

\* the digit of the quotient of r by b, for r < b * Base
BQuotDigit[r \in Limbs, b \in Limbs] ==
  IF BCmp[r, b] < 0 THEN 0
  ELSE BDigit[r, b, BTop[r, Len(b)] \div (b[Len(b)] + 1),
              BUpTo[(BTop[r, Len(b)] + 1) \div b[Len(b)], Base - 1]]

\* the remainder r with the limb d brought down below it
BPush[d \in Nat, r \in Limbs] ==
  IF r = <<>> THEN (IF d = 0 THEN <<>> ELSE <<d>>) ELSE <<d>> \o r

\* a quotient digit with the remainder it leaves
DigitRem == [d : Nat, r : Limbs]

\* a quotient with its remainder
QuotRem == [q : Limbs, r : Limbs]

\* the quotient digit d of r by b with what it leaves of r
BDivRem[r \in Limbs, b \in Limbs, d \in Nat] ==
  [d |-> d, r |-> IF d = 0 THEN r ELSE BSub[r, BMulSmall[b, d]]]

BDivDigit[r \in Limbs, b \in Limbs] == BDivRem[r, b, BQuotDigit[r, b]]

\* long division of a by b > 0, with a's limbs down to i + 1 done: x is the
\* last digit and the remainder, q the digits before it
BDivStep[a \in Limbs, b \in Limbs, i \in Nat, q \in Limbs, x \in DigitRem] ==
  IF i = 0 THEN [q |-> BNorm[<<x.d>> \o q], r |-> x.r]
  ELSE BDivStep[a, b, i - 1, <<x.d>> \o q, BDivDigit[BPush[a[i], x.r], b]]

\* the top Len(b) - 1 limbs of a are below b: the division starts under them
BDivMod[a \in Limbs, b \in Limbs] ==
  IF Len(a) < Len(b) THEN [q |-> <<>>, r |-> a]
  ELSE BDivStep[a, b, Len(a) - Len(b) + 1, <<>>,
                [d |-> 0, r |-> BNorm[SubSeq(a, Len(a) - Len(b) + 2, Len(a))]]]

\* the factor that brings b's top limb to Base / 2 or more, so that the
\* estimate of a quotient digit is off by 2 at most
BScale[b \in Limbs] == Base \div (b[Len(b)] + 1)

\* the quotient of a by b > 0
BQuot[a \in Limbs, b \in Limbs] ==
  BDivMod[BMulSmall[a, BScale[b]], BMulSmall[b, BScale[b]]].q

\* a natural number below 2^31 as limbs
BOfNat[n \in Nat] == IF n = 0 THEN <<>> ELSE <<n % Base>> \o BOfNat[n \div Base]

BRoundUp[x \in QuotRem, b \in Limbs] ==
  IF BCmp[BMulSmall[x.r, 2], b] >= 0 THEN BAdd[x.q, <<1>>] ELSE x.q

BDivRoundScaled[a \in Limbs, b \in Limbs] == BRoundUp[BDivMod[a, b], b]

\* round-to-nearest quotient of a by b > 0
BDivRound[a \in Limbs, b \in Limbs] ==
  BDivRoundScaled[BMulSmall[a, BScale[b]], BMulSmall[b, BScale[b]]]

\* a with its n lowest limbs dropped, rounded to nearest
BDropRound[a \in Limbs, n \in Nat] ==
  IF Len(a) < n THEN <<>>
  ELSE IF a[n] >= Base \div 2 THEN BAdd[SubSeq(a, n + 1, Len(a)), <<1>>]
  ELSE SubSeq(a, n + 1, Len(a))


(***************************************************************************)
(* f64 values and the arithmetic the source applies to them.  The          *)
(* operations are functions: TLC computes the arguments of a function      *)
(* before it applies it, as Rust computes operands before an operation.    *)
(***************************************************************************)
F64 == [k : {"fin", "inf", "nan"}, neg : BOOLEAN, m : Limbs]

NaN == [k |-> "nan", neg |-> FALSE, m |-> <<>>]

Inf(neg) == [k |-> "inf", neg |-> neg, m |-> <<>>]

\* f64::MAX = 1.7976931348623157e308, in units of 10^-12
MaxMag == BShift[<<3157, 4862, 9313, 7976, 1>>, 73 + FracLimbs]

Fin[neg \in BOOLEAN, m \in Limbs] ==
  IF m = <<>> THEN [k |-> "fin", neg |-> FALSE, m |-> <<>>]
  ELSE IF BCmp[m, MaxMag] > 0 THEN Inf(neg)
  ELSE [k |-> "fin", neg |-> neg, m |-> m]

Zero == Fin[FALSE, <<>>]

IsNaN(x) == x.k = "nan"

IsFinite(x) == x.k = "fin"

IsZero(x) == x.k = "fin" /\ x.m = <<>>

\* the literal n / d, for naturals n, d below 2^31
Lit(n, d) == Fin[FALSE, BDivRound[BShift[BOfNat[n], FracLimbs], BOfNat[d]]]

FNeg[x \in F64] == IF x.k = "nan" \/ IsZero(x) THEN x ELSE [x EXCEPT !.neg = ~x.neg]

FAbs[x \in F64] == [x EXCEPT !.neg = FALSE]

FAdd[x \in F64, y \in F64] ==
  IF x.k = "fin" /\ y.k = "fin"
  THEN (IF x.neg = y.neg THEN Fin[x.neg, BAdd[x.m, y.m]]
        ELSE IF BCmp[x.m, y.m] >= 0 THEN Fin[x.neg, BSub[x.m, y.m]]
        ELSE Fin[y.neg, BSub[y.m, x.m]])
  ELSE IF x.k = "nan" \/ y.k = "nan" THEN NaN
  ELSE IF x.k = "inf" THEN (IF y.k = "inf" /\ y.neg # x.neg THEN NaN ELSE x)
  ELSE y

FSub[x \in F64, y \in F64] == FAdd[x, FNeg[y]]

FMul[x \in F64, y \in F64] ==
  IF x.k = "fin" /\ y.k = "fin"
  THEN (IF Len(x.m) + Len(y.m) - 1 - FracLimbs > Len(MaxMag) THEN Inf(x.neg # y.neg)
        ELSE Fin[x.neg # y.neg, BDropRound[BMul[x.m, y.m], FracLimbs]])
  ELSE IF x.k = "nan" \/ y.k = "nan" THEN NaN
  ELSE IF IsZero(x) \/ IsZero(y) THEN NaN
  ELSE Inf(x.neg # y.neg)

FDiv[x \in F64, y \in F64] ==
  IF x.k = "fin" /\ y.k = "fin"
  THEN (IF y.m = <<>> THEN (IF x.m = <<>> THEN NaN ELSE Inf(x.neg))
        ELSE Fin[x.neg # y.neg, BDivRound[BShift[x.m, FracLimbs], y.m]])
  ELSE IF x.k = "nan" \/ y.k = "nan" THEN NaN
  ELSE IF x.k = "inf" THEN (IF y.k = "inf" THEN NaN ELSE Inf(x.neg # y.neg))
  ELSE Zero

\* -1, 0, 1 for two values that are not NaN
FCmp(x, y) ==
  LET rank(v) == IF v.k = "inf" THEN (IF v.neg THEN -2 ELSE 2)
                 ELSE IF v.m = <<>> THEN 0
                 ELSE IF v.neg THEN -1 ELSE 1
  IN IF rank(x) < rank(y) THEN -1
     ELSE IF rank(x) > rank(y) THEN 1
     ELSE IF rank(x) = 1 THEN BCmp[x.m, y.m]
     ELSE IF rank(x) = -1 THEN BCmp[y.m, x.m]
     ELSE 0

FLt(x, y) == x.k # "nan" /\ y.k # "nan" /\ FCmp(x, y) < 0

FLe(x, y) == x.k # "nan" /\ y.k # "nan" /\ FCmp(x, y) <= 0

OneF == Fin[FALSE, One]

\* a natural number below 2^31 as an f64
LitInt(n) == Fin[FALSE, BShift[BOfNat[n], FracLimbs]]

Half == Lit(1, 2)

Two == LitInt(2)

Hundred == LitInt(100)

BToNat[s \in Limbs] == IF s = <<>> THEN 0 ELSE s[1] + Base * BToNat[Tail(s)]

BPow2[k \in Nat] ==
  IF k = 0 THEN <<1>>
  ELSE IF k >= 13 THEN BMulSmall[BPow2[k - 13], 8192]
  ELSE BMulSmall[BPow2[k - 1], 2]

\* std::f64::consts::LN_2, SQRT_2, PI to 12 decimals
Ln2 == Fin[FALSE, <<560, 4718, 6931>>]

SQRT_2 == Fin[FALSE, <<2373, 1356, 4142, 1>>]

PI == Fin[FALSE, <<3590, 9265, 1415, 3>>]

(***************************************************************************)
(* The functions of the source call one another through Invoke, which      *)
(* selects a function's body by its name; the bodies follow, each under    *)
(* the source's name with the suffix _body.                                *)
(***************************************************************************)
RECURSIVE Invoke(_, _)

FSqrt(x) == Invoke("f64::sqrt", <<x>>)

FExp(x) == Invoke("f64::exp", <<x>>)

FLn(x) == Invoke("f64::ln", <<x>>)

erf(x) == Invoke("erf", <<x>>)

norm_cdf(x) == Invoke("norm_cdf", <<x>>)

norm_pdf(x) == Invoke("norm_pdf", <<x>>)

d1(self) == Invoke("d1", <<self>>)

d2(self) == Invoke("d2", <<self>>)

price(self, option_type) == Invoke("price", <<self, option_type>>)

greeks(self, option_type) == Invoke("greeks", <<self, option_type>>)

LoopBody(self, option_type, market_price, tolerance, vol) ==
  Invoke("implied_volatility", <<self, option_type, market_price, tolerance, vol>>)

(***************************************************************************)
(* f64::sqrt: the integer square root of m * 10^12, rounded to nearest,    *)
(* by Newton's iteration from a start that is not below the root.          *)
(***************************************************************************)
NatSqrtFrom[n \in Nat, y \in Nat] ==
  LET y1 == (y + n \div y) \div 2
  IN IF y1 >= y THEN y ELSE NatSqrtFrom[n, y1]

NatSqrt[n \in Nat] == IF n = 0 THEN 0 ELSE NatSqrtFrom[n, n]

BHalf[a \in Limbs] == Tail(BMulSmall[a, Base \div 2])

BSqrtStep[n \in Limbs, y \in Limbs] == BHalf[BAdd[y, BQuot[n, y]]]

\* y1 is the step from y: the iteration ends when it no longer decreases
BSqrtFrom[n \in Limbs, y \in Limbs, y1 \in Limbs] ==
  IF BCmp[y1, y] >= 0 THEN y ELSE BSqrtFrom[n, y1, BSqrtStep[n, y1]]

BSqrtRound[n \in Limbs, y \in Limbs] ==
  IF BCmp[BSub[n, BMul[y, y]], y] > 0 THEN BAdd[y, <<1>>] ELSE y

BSqrtStart[n \in Limbs, len \in Nat] ==
  BShift[BOfNat[NatSqrt[IF len % 2 = 0 THEN n[len] * Base + n[len - 1] ELSE n[len]] + 1],
         (len - 1) \div 2]

BSqrtFloor[n \in Limbs, y \in Limbs] == BSqrtFrom[n, y, BSqrtStep[n, y]]

BSqrt[n \in Limbs] == BSqrtRound[n, BSqrtFloor[n, BSqrtStart[n, Len(n)]]]

FSqrt_body(x) ==
  IF x.k = "fin" /\ x.m # <<>> /\ ~x.neg THEN Fin[FALSE, BSqrt[BShift[x.m, FracLimbs]]]
  ELSE IF x.k # "nan" /\ ~x.neg THEN x
  ELSE NaN

(***************************************************************************)
(* f64::exp: x = k ln 2 + r with |r| <= (ln 2)/2, e^r by its Taylor series *)
(* until the term rounds to 0, then scaled by 2^k.                         *)
(***************************************************************************)
\* acc + term + term r / n + term r^2 / (n (n + 1)) + ...
ExpSeries[r \in F64, term \in F64, n \in Nat, acc \in F64] ==
  IF IsZero(term) \/ acc.k # "fin" THEN acc
  ELSE ExpSeries[r, FDiv[FMul[term, r], LitInt(n)], n + 1, FAdd[acc, term]]

\* e^r 2^k for x >= 0, e^r / 2^k for x < 0
ExpScale[x \in F64, k \in Nat, e \in F64] ==
  IF x.neg THEN Fin[FALSE, BDivRound[e.m, BPow2[k]]]
           ELSE Fin[FALSE, BMul[e.m, BPow2[k]]]

\* r = |x| - k ln 2, with its sign
ExpReduce[x \in F64, k \in Nat, kl \in F64] ==
  ExpScale[x, k, ExpSeries[IF x.neg THEN FAdd[x, kl] ELSE FSub[x, kl], OneF, 1, Zero]]

\* k = round(|x| / ln 2)
ExpSplit[x \in F64, k \in Nat] == ExpReduce[x, k, FMul[LitInt(k), Ln2]]

FExp_body(x) ==
  IF x.k = "fin" /\ FLe(x, LitInt(710)) /\ FLe(FNeg[LitInt(30)], x)
  THEN ExpSplit[x, BToNat[BDropRound[FDiv[x, Ln2].m, FracLimbs]]]
  ELSE IF x.k = "nan" THEN NaN
  ELSE IF x.neg THEN Zero
  ELSE Inf(FALSE)

(***************************************************************************)
(* f64::ln: x = m 2^k with m in [3/4, 3/2), ln m = 2 atanh((m-1)/(m+1)) by *)
(* its series until the power rounds to 0.                                 *)
(***************************************************************************)
\* a power of two 2^k, or a mantissa scaled by 2^k
Scaled == [k : Nat, v : Limbs]

\* for m >= 1.0: the largest k with 2^k <= m, and 2^k
LnDown[m \in Limbs, pow \in Limbs, k \in Nat] ==
  IF BCmp[BMulSmall[pow, 2], m] > 0 THEN [k |-> k, v |-> pow]
  ELSE LnDown[m, BMulSmall[pow, 2], k + 1]

\* for 0 < m < 1.0: the smallest k with m 2^k >= 1.0, and m 2^k
LnUp[m \in Limbs, k \in Nat] ==
  IF BCmp[m, One] >= 0 THEN [k |-> k, v |-> m]
  ELSE LnUp[BMulSmall[m, 2], k + 1]

LnSeries[z2 \in F64, pw \in F64, n \in Nat, acc \in F64] ==
  IF IsZero(pw) \/ acc.k # "fin" THEN acc
  ELSE LnSeries[z2, FMul[pw, z2], n + 2, FAdd[acc, FDiv[pw, LitInt(n)]]]

ThreeHalves == Lit(3, 2)

\* 2 atanh(z) by its series in z^2
LnAtanh[z \in F64] == FMul[Two, LnSeries[FMul[z, z], z, 1, Zero]]

\* k ln 2 + ln m, with ln m = 2 atanh((m - 1) / (m + 1))
LnOfMantissa[k \in Int, m \in F64] ==
  FAdd[IF k < 0 THEN FNeg[FMul[LitInt(0 - k), Ln2]] ELSE FMul[LitInt(k), Ln2],
       LnAtanh[FDiv[FSub[m, OneF], FAdd[m, OneF]]]]

\* m in [1, 2) to [3/4, 3/2)
LnFold[k \in Int, m \in F64] ==
  IF FLt(ThreeHalves, m) THEN LnOfMantissa[k + 1, FDiv[m, Two]] ELSE LnOfMantissa[k, m]

LnBig[x \in F64, dn \in Scaled] == LnFold[dn.k, FDiv[x, Fin[FALSE, dn.v]]]

LnSmall[up \in Scaled] == LnFold[0 - up.k, Fin[FALSE, up.v]]

FLn_body(x) ==
  IF x.k = "fin" /\ x.m # <<>> /\ ~x.neg
  THEN (IF BCmp[x.m, One] >= 0 THEN LnBig[x, LnDown[x.m, One, 0]]
        ELSE LnSmall[LnUp[x.m, 0]])
  ELSE IF x.k = "nan" THEN NaN
  ELSE IF IsZero(x) THEN Inf(TRUE)
  ELSE IF x.neg THEN NaN
  ELSE x

(***************************************************************************)
(* black_scholes.rs: the statistical primitives.                           *)
(***************************************************************************)
A1 == Lit(254829592, 1000000000)

A2 == FNeg[Lit(284496736, 1000000000)]

A3 == Lit(1421413741, 1000000000)

A4 == FNeg[Lit(1453152027, 1000000000)]

A5 == Lit(1061405429, 1000000000)

P == Lit(3275911, 10000000)

\* sign * y, in the locals of erf: x is |x|, t = 1 / (1 + p x)
erf_y(sign, x, t) ==
  FMul[sign,
       FSub[OneF,
            FMul[FMul[FAdd[FMul[FAdd[FMul[FAdd[FMul[FAdd[FMul[A5, t], A4], t], A3], t], A2], t],
                           A1], t],
                 FExp(FMul[FNeg[x], x])]]]

erf_t(sign, x) == erf_y(sign, x, FDiv[OneF, FAdd[OneF, FMul[P, x]]])

erf_body(x) == erf_t(IF FLt(x, Zero) THEN FNeg[OneF] ELSE OneF, FAbs[x])

norm_cdf_body(x) == FMul[Half, FAdd[OneF, erf(FDiv[x, SQRT_2])]]

norm_pdf_body(x) == FDiv[FExp(FMul[FNeg[Half], FMul[x, x]]), FSqrt(FMul[Two, PI])]

(***************************************************************************)
(* BlackScholes: d1, d2, price, greeks.                                    *)
(***************************************************************************)
d1_body(self) ==
  FDiv[FAdd[FLn(FDiv[self.spot_price, self.strike_price]),
            FMul[FAdd[FSub[self.risk_free_rate, self.dividend_yield],
                      FMul[Half, FMul[self.volatility, self.volatility]]],
                 self.time_to_expiry]],
       FMul[self.volatility, FSqrt(self.time_to_expiry)]]

d2_body(self) == FSub[d1(self), FMul[self.volatility, FSqrt(self.time_to_expiry)]]

\* the match of price, in its locals d1 and d2
price_of(self, option_type, dd1, dd2) ==
  IF option_type = "Call"
  THEN FSub[FMul[FMul[self.spot_price,
                      FExp(FMul[FNeg[self.dividend_yield], self.time_to_expiry])],
                 norm_cdf(dd1)],
            FMul[FMul[self.strike_price,
                      FExp(FMul[FNeg[self.risk_free_rate], self.time_to_expiry])],
                 norm_cdf(dd2)]]
  ELSE FSub[FMul[FMul[self.strike_price,
                      FExp(FMul[FNeg[self.risk_free_rate], self.time_to_expiry])],
                 norm_cdf(FNeg[dd2])],
            FMul[FMul[self.spot_price,
                      FExp(FMul[FNeg[self.dividend_yield], self.time_to_expiry])],
                 norm_cdf(FNeg[dd1])]]

\* price with the Put arm's discounted strike weighted by norm_cdf(d2)
price_put_sign(self, option_type) ==
  price_of(self, option_type, d1(self),
           IF option_type = "Put" THEN FNeg[d2(self)] ELSE d2(self))

price_body(self, option_type) == price_of(self, option_type, d1(self), d2(self))

\* the Greeks struct, in the locals d1, d2, sqrt_t, discount and dividend_discount
greeks_of(self, option_type, dd1, dd2, sqrt_t, discount, dividend_discount) ==
  [delta |->
     IF option_type = "Call"
     THEN FMul[dividend_discount, norm_cdf(dd1)]
     ELSE FMul[FNeg[dividend_discount], norm_cdf(FNeg[dd1])],
   gamma |->
     FDiv[FMul[dividend_discount, norm_pdf(dd1)],
          FMul[FMul[self.spot_price, self.volatility], sqrt_t]],
   vega |->
     FDiv[FMul[FMul[FMul[self.spot_price, dividend_discount], norm_pdf(dd1)], sqrt_t],
          Hundred],
   theta |->
     IF option_type = "Call"
     THEN FDiv[FAdd[FSub[FDiv[FNeg[FMul[FMul[FMul[self.spot_price, norm_pdf(dd1)],
                                             self.volatility], dividend_discount]],
                              FMul[Two, sqrt_t]],
                         FMul[FMul[FMul[self.dividend_yield, self.spot_price],
                                   norm_cdf(dd1)], dividend_discount]],
                    FMul[FMul[FMul[self.risk_free_rate, self.strike_price], discount],
                         norm_cdf(dd2)]],
               LitInt(365)]
     ELSE FDiv[FSub[FAdd[FDiv[FNeg[FMul[FMul[FMul[self.spot_price, norm_pdf(dd1)],
                                             self.volatility], dividend_discount]],
                              FMul[Two, sqrt_t]],
                         FMul[FMul[FMul[self.dividend_yield, self.spot_price],
                                   norm_cdf(FNeg[dd1])], dividend_discount]],
                    FMul[FMul[FMul[self.risk_free_rate, self.strike_price], discount],
                         norm_cdf(FNeg[dd2])]],
               LitInt(365)],
   rho |->
     IF option_type = "Call"
     THEN FDiv[FMul[FMul[FMul[self.strike_price, self.time_to_expiry], discount],
                    norm_cdf(dd2)], Hundred]
     ELSE FDiv[FNeg[FMul[FMul[FMul[self.strike_price, self.time_to_expiry], discount],
                         norm_cdf(FNeg[dd2])]], Hundred]]

\* greeks with the Put's vega negated, as its delta and rho are
greeks_put_vega(self, option_type) ==
  [greeks_of(self, option_type, d1(self), d2(self), FSqrt(self.time_to_expiry),
             FExp(FMul[FNeg[self.risk_free_rate], self.time_to_expiry]),
             FExp(FMul[FNeg[self.dividend_yield], self.time_to_expiry]))
     EXCEPT !.vega = IF option_type = "Put" THEN FNeg[@] ELSE @]

greeks_body(self, option_type) ==
  greeks_of(self, option_type, d1(self), d2(self), FSqrt(self.time_to_expiry),
            FExp(FMul[FNeg[self.risk_free_rate], self.time_to_expiry]),
            FExp(FMul[FNeg[self.dividend_yield], self.time_to_expiry]))

(***************************************************************************)
(* BlackScholes::new: the four checks in source order, first failure wins. *)
(***************************************************************************)
ErrSpot == "Spot price must be positive"

ErrStrike == "Strike price must be positive"

ErrExpiry == "Time to expiry must be positive"

ErrVolatility == "Volatility must be positive"

\* new with `spot_price < 0.0` for its first check
new_zero_spot(spot_price, strike_price, time_to_expiry, risk_free_rate, volatility, dividend_yield) ==
  IF FLt(spot_price, Zero) THEN [tag |-> "Err", val |-> ErrSpot]
  ELSE IF FLe(strike_price, Zero) THEN [tag |-> "Err", val |-> ErrStrike]
  ELSE IF FLe(time_to_expiry, Zero) THEN [tag |-> "Err", val |-> ErrExpiry]
  ELSE IF FLe(volatility, Zero) THEN [tag |-> "Err", val |-> ErrVolatility]
  ELSE [tag |-> "Ok",
        val |-> [spot_price     |-> spot_price,
                 strike_price   |-> strike_price,
                 time_to_expiry |-> time_to_expiry,
                 risk_free_rate |-> risk_free_rate,
                 volatility     |-> volatility,
                 dividend_yield |-> dividend_yield]]

new(spot_price, strike_price, time_to_expiry, risk_free_rate, volatility, dividend_yield) ==
  IF FLe(spot_price, Zero) THEN [tag |-> "Err", val |-> ErrSpot]
  ELSE IF FLe(strike_price, Zero) THEN [tag |-> "Err", val |-> ErrStrike]
  ELSE IF FLe(time_to_expiry, Zero) THEN [tag |-> "Err", val |-> ErrExpiry]
  ELSE IF FLe(volatility, Zero) THEN [tag |-> "Err", val |-> ErrVolatility]
  ELSE [tag |-> "Ok",
        val |-> [spot_price     |-> spot_price,
                 strike_price   |-> strike_price,
                 time_to_expiry |-> time_to_expiry,
                 risk_free_rate |-> risk_free_rate,
                 volatility     |-> volatility,
                 dividend_yield |-> dividend_yield]]

(***************************************************************************)
(* BlackScholes::implied_volatility: one pass of the loop body.            *)
(***************************************************************************)
InitialGuess == Lit(3, 10)

VegaEps == FDiv[Lit(1, 100000), LitInt(100000)]

ClampVol == Lit(1, 1000)

ErrVega == "Vega too small, cannot converge"

ErrConverge == "Failed to converge"

\* a local the code has not assigned
Unset == [k |-> "unset", neg |-> FALSE, m |-> <<>>]

\* the pass from `vol += diff / vega` on
LoopUpdate(pr, vega, diff, upd) ==
  [exit |-> "next", price |-> pr, vega |-> vega, diff |-> diff,
   vol |-> IF FLe(upd, Zero) THEN ClampVol ELSE upd]

\* the tolerance test with `vol -= diff / vega` for the update
LoopConverged_step_down(tolerance, vol, pr, vega, diff) ==
  IF FLt(FAbs[diff], tolerance)
  THEN [exit |-> "ok", price |-> pr, vega |-> vega, diff |-> diff, vol |-> vol]
  ELSE LoopUpdate(pr, vega, diff, FSub[vol, FDiv[diff, vega]])

\* the pass from the tolerance test on
LoopConverged(tolerance, vol, pr, vega, diff) ==
  IF FLt(FAbs[diff], tolerance)
  THEN [exit |-> "ok", price |-> pr, vega |-> vega, diff |-> diff, vol |-> vol]
  ELSE LoopUpdate(pr, vega, diff, FAdd[vol, FDiv[diff, vega]])

\* the pass with the tolerance test moved above the vega test
LoopVega_tolerance_first(market_price, tolerance, vol, pr, vega) ==
  IF FLt(FAbs[FSub[market_price, pr]], tolerance)
  THEN [exit |-> "ok", price |-> pr, vega |-> vega,
        diff |-> FSub[market_price, pr], vol |-> vol]
  ELSE IF FLt(FAbs[vega], VegaEps)
  THEN [exit |-> "vega", price |-> pr, vega |-> vega, diff |-> Unset, vol |-> vol]
  ELSE LoopUpdate(pr, vega, FSub[market_price, pr],
                  FAdd[vol, FDiv[FSub[market_price, pr], vega]])

\* the pass from the vega test on
LoopVega(market_price, tolerance, vol, pr, vega) ==
  IF FLt(FAbs[vega], VegaEps)
  THEN [exit |-> "vega", price |-> pr, vega |-> vega, diff |-> Unset, vol |-> vol]
  ELSE LoopConverged(tolerance, vol, pr, vega, FSub[market_price, pr])

\* the body without `bs.volatility = vol`: every pass evaluates the input model
LoopBody_keeps_volatility(self, option_type, market_price, tolerance, vol) ==
  LoopVega(market_price, tolerance, vol,
           price(self, option_type),
           FMul[greeks(self, option_type).vega, Hundred])

\* the body of the for loop at the guess vol: its locals and how it left
\* ("vega": Err, "ok": Ok(vol), "next": the next pass, with the new guess)
LoopBody_body(self, option_type, market_price, tolerance, vol) ==
  LoopVega(market_price, tolerance, vol,
           price([self EXCEPT !.volatility = vol], option_type),
           FMul[greeks([self EXCEPT !.volatility = vol], option_type).vega, Hundred])

Invoke(fn, args) ==
  CASE fn = "f64::sqrt" /\ Len(args) = 1 -> FSqrt_body(args[1])
    [] fn = "f64::exp" /\ Len(args) = 1 -> FExp_body(args[1])
    [] fn = "f64::ln" /\ Len(args) = 1 -> FLn_body(args[1])
    [] fn = "erf" /\ Len(args) = 1 -> erf_body(args[1])
    [] fn = "norm_cdf" /\ Len(args) = 1 -> norm_cdf_body(args[1])
    [] fn = "norm_pdf" /\ Len(args) = 1 -> norm_pdf_body(args[1])
    [] fn = "d1" /\ Len(args) = 1 -> d1_body(args[1])
    [] fn = "d2" /\ Len(args) = 1 -> d2_body(args[1])
    [] fn = "price" /\ Len(args) = 2 -> price_body(args[1], args[2])
    [] fn = "greeks" /\ Len(args) = 2 -> greeks_body(args[1], args[2])
    [] fn = "implied_volatility" /\ Len(args) = 5 -> LoopBody_body(args[1], args[2], args[3], args[4], args[5])

(***************************************************************************)
(* The callers (the tests, src/main.rs, examples/basic_usage.rs): a caller *)
(* builds a model with new, then prices it, takes its greeks, or solves    *)
(* for the implied volatility of a market price.                           *)
(***************************************************************************)
VARIABLES
  pc,            \* "new", "rejected", "ready", "loop", "done"
  inp,           \* what the caller passes: the six parameters and the solver's arguments
  created,       \* what new returned
  market_price,  \* implied_volatility's market_price
  vol,           \* implied_volatility's local vol
  iter,          \* completed passes of its for loop
  evals,         \* passes begun: evaluations of price and vega
  last,          \* the locals of the latest pass: the guess it used, price, vega, diff
  result,        \* what implied_volatility returned
  quotes         \* what price and greeks returned, per option type

vars == <<pc, inp, created, market_price, vol, iter, evals, last, result, quotes>>

None == [tag |-> "None", val |-> "None"]

NoLast == [vol |-> Unset, price |-> Unset, vega |-> Unset, diff |-> Unset]

NoQuotes == [price |-> [t \in {"Call", "Put"} |-> Unset],
             greeks |-> [t \in {"Call", "Put"} |-> Unset]]

\* the market price is the model's own Call price (tests::test_implied_volatility)
RoundTrip == [k |-> "roundtrip", neg |-> FALSE, m |-> <<>>]

DefaultTolerance == Lit(1, 1000000)

DefaultMaxIterations == 100

MaxIter == 3

Input(S, K, T, r, sigma, q, ot, mkt, tol, n) ==
  [spot_price |-> S, strike_price |-> K, time_to_expiry |-> T, risk_free_rate |-> r,
   volatility |-> sigma, dividend_yield |-> q,
   option_type |-> ot, market |-> mkt, tolerance |-> tol, max_iterations |-> n]

InitWith(inputs) ==
  /\ inp \in inputs
  /\ pc = "new"
  /\ created = None
  /\ market_price = Unset
  /\ vol = Unset
  /\ iter = 0
  /\ evals = 0
  /\ last = NoLast
  /\ result = None
  /\ quotes = NoQuotes

New ==
  /\ pc = "new"
  /\ created' = new(inp.spot_price, inp.strike_price, inp.time_to_expiry,
                    inp.risk_free_rate, inp.volatility, inp.dividend_yield)
  /\ pc' = IF created'.tag = "Ok" THEN "ready" ELSE "rejected"
  /\ UNCHANGED <<inp, market_price, vol, iter, evals, last, result, quotes>>

Price ==
  /\ pc = "ready"
  /\ \E t \in {"Call", "Put"} :
       /\ quotes.price[t] = Unset
       /\ quotes' = [quotes EXCEPT !.price[t] = price(created.val, t)]
  /\ UNCHANGED <<pc, inp, created, market_price, vol, iter, evals, last, result>>

GreeksOf ==
  /\ pc = "ready"
  /\ \E t \in {"Call", "Put"} :
       /\ quotes.greeks[t] = Unset
       /\ quotes' = [quotes EXCEPT !.greeks[t] = greeks(created.val, t)]
  /\ UNCHANGED <<pc, inp, created, market_price, vol, iter, evals, last, result>>

\* entry of implied_volatility, up to `let mut vol = 0.3`
CallIV ==
  /\ pc = "ready"
  /\ market_price' = IF inp.market = RoundTrip THEN price(created.val, "Call")
                     ELSE inp.market
  /\ vol' = InitialGuess
  /\ iter' = 0
  /\ pc' = "loop"
  /\ UNCHANGED <<inp, created, evals, last, result, quotes>>

\* what one pass leaves behind
Pass(b) ==
  /\ last' = [vol |-> vol, price |-> b.price, vega |-> b.vega, diff |-> b.diff]
  /\ vol' = b.vol
  /\ iter' = IF b.exit = "next" THEN iter + 1 ELSE iter
  /\ pc' = IF b.exit = "next" THEN "loop" ELSE "done"
  /\ result' = IF b.exit = "ok" THEN [tag |-> "Ok", val |-> b.vol]
               ELSE IF b.exit = "vega" THEN [tag |-> "Err", val |-> ErrVega]
               ELSE result

\* the loop as `for _ in 0..=max_iterations`
Iterate_inclusive ==
  /\ pc = "loop"
  /\ iter <= inp.max_iterations
  /\ evals <= inp.max_iterations
  /\ Pass(LoopBody(created.val, inp.option_type, market_price, inp.tolerance, vol))
  /\ evals' = evals + 1
  /\ UNCHANGED <<inp, created, market_price, quotes>>

\* the loop with its test at the bottom: the body runs once before it
Iterate_tests_after ==
  /\ pc = "loop"
  /\ iter < inp.max_iterations \/ evals = 0
  /\ Pass(LoopBody(created.val, inp.option_type, market_price, inp.tolerance, vol))
  /\ evals' = evals + 1
  /\ UNCHANGED <<inp, created, market_price, quotes>>

\* one pass of `for _ in 0..max_iterations`
Iterate ==
  /\ pc = "loop"
  /\ iter < inp.max_iterations
  /\ Pass(LoopBody(created.val, inp.option_type, market_price, inp.tolerance, vol))
  /\ evals' = evals + 1
  /\ UNCHANGED <<inp, created, market_price, quotes>>

\* the loop is exhausted
LoopExit ==
  /\ pc = "loop"
  /\ iter >= inp.max_iterations
  /\ result' = [tag |-> "Err", val |-> ErrConverge]
  /\ pc' = "done"
  /\ UNCHANGED <<inp, created, market_price, vol, iter, evals, last, quotes>>

(***************************************************************************)
(* Construction: every combination of raw arguments, valid or not.         *)
(***************************************************************************)
RawVals == {NaN, FNeg[OneF], Zero, Lit(1, 5), LitInt(100), Inf(FALSE)}

RateVals == {FNeg[Lit(1, 20)], Zero, Lit(1, 20)}

NewInputs ==
  {Input(S, K, T, r, sigma, q, "Call", RoundTrip, DefaultTolerance, 0) :
     S \in RawVals, K \in RawVals, T \in RawVals, sigma \in RawVals,
     r \in RateVals, q \in RateVals}

InitNew == InitWith(NewInputs)

NextNew == New

SpecNew == InitNew /\ [][NextNew]_vars

(***************************************************************************)
(* Pricing: valid models, the reference scenarios and the corners.         *)
(***************************************************************************)
PricingCase(S, K, T, r, sigma, q) ==
  Input(S, K, T, r, sigma, q, "Call", RoundTrip, DefaultTolerance, 0)

PricingInputs ==
  { PricingCase(LitInt(100), LitInt(100), OneF, Lit(5, 100), Lit(2, 10), Zero),
    PricingCase(LitInt(100), LitInt(105), Half, Lit(5, 100), Lit(25, 100), Zero),
    PricingCase(LitInt(2000), LitInt(2000), OneF, Zero, Half, Lit(125, 1000)),
    PricingCase(LitInt(100), LitInt(150), Lit(1, 100), Lit(5, 100), Lit(5, 100), Zero),
    PricingCase(LitInt(150), LitInt(100), Lit(1, 100), Lit(5, 100), Lit(5, 100), Zero),
    PricingCase(LitInt(100), LitInt(100), OneF, FNeg[Lit(5, 100)], Lit(2, 10), Zero),
    PricingCase(LitInt(100), LitInt(90), Two, Lit(5, 100), OneF, FNeg[Lit(2, 100)]),
    PricingCase(LitInt(100), LitInt(100), OneF, Lit(5, 100), Inf(FALSE), Zero) }

InitPricing == InitWith(PricingInputs)

NextPricing == New \/ Price \/ GreeksOf

SpecPricing == InitPricing /\ [][NextPricing]_vars

(***************************************************************************)
(* The solver.                                                             *)
(***************************************************************************)
Ref(sigma, T, ot, mkt, tol, n) ==
  Input(LitInt(100), LitInt(100), T, Lit(5, 100), sigma, Zero, ot, mkt, tol, n)

IterationChoices == (0..MaxIter) \cup {DefaultMaxIterations}

\* 10^308
HugePrice == Fin[FALSE, BShift[<<1>>, 77 + FracLimbs]]

IVInputs ==
  UNION { { Ref(Lit(2, 10), OneF, "Call", RoundTrip, DefaultTolerance, n),
            Ref(Lit(2, 10), OneF, "Put", Lit(5573518, 1000000), DefaultTolerance, n),
            Ref(Lit(3, 10), OneF, "Call", RoundTrip, DefaultTolerance, n),
            Ref(Lit(5, 100), Lit(1, 100), "Call", RoundTrip, DefaultTolerance, n),
            Ref(Lit(5, 100), LitInt(5), "Call", RoundTrip, DefaultTolerance, n),
            Ref(OneF, Lit(1, 100), "Call", RoundTrip, DefaultTolerance, n),
            Ref(OneF, LitInt(5), "Call", RoundTrip, DefaultTolerance, n),
            Ref(Lit(2, 10), OneF, "Call", OneF, DefaultTolerance, n),
            Ref(Lit(2, 10), OneF, "Call", LitInt(150), DefaultTolerance, n),
            Ref(Lit(2, 10), OneF, "Call", RoundTrip, Zero, n),
            Ref(Lit(2, 10), OneF, "Call", NaN, DefaultTolerance, n),
            Input(LitInt(100), LitInt(110), Lit(1, 100), Lit(1, 10), OneF, Zero,
                  "Call", RoundTrip, DefaultTolerance, n),
            Input(LitInt(100), LitInt(150), Lit(1, 100), Lit(5, 100), Lit(5, 100), Zero,
                  "Call", RoundTrip, DefaultTolerance, n),
            Input(OneF, OneF, OneF, Zero, Lit(2, 10), Zero,
                  "Call", HugePrice, DefaultTolerance, n) }
          : n \in IterationChoices }

InitIV == InitWith(IVInputs)

NextIV == New \/ CallIV \/ Iterate \/ LoopExit

SpecIV == InitIV /\ [][NextIV]_vars

(***************************************************************************)
(* The properties.  x > 0 and x <= 0 are read off the representation, not  *)
(* through FCmp: both are false of NaN.                                    *)
(***************************************************************************)
Positive(x) == x.k # "nan" /\ ~x.neg /\ (x.k = "inf" \/ x.m # <<>>)

NonPositive(x) == x.k # "nan" /\ (x.neg \/ (x.k = "fin" /\ x.m = <<>>))

GivenModel ==
  [spot_price     |-> inp.spot_price,
   strike_price   |-> inp.strike_price,
   time_to_expiry |-> inp.time_to_expiry,
   risk_free_rate |-> inp.risk_free_rate,
   volatility     |-> inp.volatility,
   dividend_yield |-> inp.dividend_yield]

\* C1: new returns an error exactly when one of S, K, T, sigma is <= 0, and
\* for S, K, T, sigma > 0 it returns Ok with a model holding the six values
\* it was given, whatever the sign of r and q.
C1_NewRejectsExactlyNonPositive ==
  pc # "new" =>
    /\ created.tag = "Err" <=>
         \/ NonPositive(inp.spot_price)
         \/ NonPositive(inp.strike_price)
         \/ NonPositive(inp.time_to_expiry)
         \/ NonPositive(inp.volatility)
    /\ created.tag \in {"Ok", "Err"}
    /\ ( /\ Positive(inp.spot_price)
         /\ Positive(inp.strike_price)
         /\ Positive(inp.time_to_expiry)
         /\ Positive(inp.volatility) ) => created = [tag |-> "Ok", val |-> GivenModel]

\* a model was built from a negative rate and a negative dividend yield
C1_Witness ==
  /\ pc = "ready"
  /\ created = [tag |-> "Ok", val |-> GivenModel]
  /\ inp.risk_free_rate.neg
  /\ inp.dividend_yield.neg

\* C9: a failing new reports the first violated constraint in the order spot,
\* strike, expiry, volatility: spot whenever S <= 0, strike only when S > 0
\* and K <= 0, expiry only when S, K > 0 and T <= 0, volatility only when
\* S, K, T > 0 and sigma <= 0; and no model is produced.
C9_FirstViolatedConstraint ==
  pc = "rejected" =>
    /\ created.tag = "Err"
    /\ created.val \in {ErrSpot, ErrStrike, ErrExpiry, ErrVolatility}
    /\ NonPositive(inp.spot_price) => created.val = ErrSpot
    /\ created.val = ErrStrike =>
         Positive(inp.spot_price) /\ NonPositive(inp.strike_price)
    /\ created.val = ErrExpiry =>
         /\ Positive(inp.spot_price)
         /\ Positive(inp.strike_price)
         /\ NonPositive(inp.time_to_expiry)
    /\ created.val = ErrVolatility =>
         /\ Positive(inp.spot_price)
         /\ Positive(inp.strike_price)
         /\ Positive(inp.time_to_expiry)
         /\ NonPositive(inp.volatility)

\* the model new returned satisfies S, K, T, sigma > 0
Valid ==
  /\ created.tag = "Ok"
  /\ Positive(created.val.spot_price)
  /\ Positive(created.val.strike_price)
  /\ Positive(created.val.time_to_expiry)
  /\ Positive(created.val.volatility)

Between(lo, x, hi) == FLe(lo, x) /\ FLe(x, hi)

\* 1 <= S, K <= 10^4, 0.01 <= T <= 5, 0.05 <= sigma <= 1, |r|, |q| <= 0.2
Ordinary(m) ==
  /\ Between(OneF, m.spot_price, LitInt(10000))
  /\ Between(OneF, m.strike_price, LitInt(10000))
  /\ Between(Lit(1, 100), m.time_to_expiry, LitInt(5))
  /\ Between(Lit(5, 100), m.volatility, OneF)
  /\ Between(FNeg[Lit(2, 10)], m.risk_free_rate, Lit(2, 10))
  /\ Between(FNeg[Lit(2, 10)], m.dividend_yield, Lit(2, 10))

FMax(x, y) == IF FLt(x, y) THEN y ELSE x

DiscountedSpot(m) ==
  FMul[m.spot_price, FExp(FMul[FNeg[m.dividend_yield], m.time_to_expiry])]

DiscountedStrike(m) ==
  FMul[m.strike_price, FExp(FMul[FNeg[m.risk_free_rate], m.time_to_expiry])]

\* |(call - put) - (S e^(-qT) - K e^(-rT))|, as tests::test_put_call_parity takes it
ParityError(m, call, put) ==
  FAbs[FSub[FSub[call, put], FSub[DiscountedSpot(m), DiscountedStrike(m)]]]

BothPriced == quotes.price["Call"] # Unset /\ quotes.price["Put"] # Unset

\* C2 as stated: for any valid model, price(Call) - price(Put) equals
\* S e^(-qT) - K e^(-rT) within 1e-6.
C2_ParityWithinAbsoluteTolerance ==
  (Valid /\ BothPriced) =>
    FLt(ParityError(created.val, quotes.price["Call"], quotes.price["Put"]),
        Lit(1, 1000000))

\* C2 as amended: for a valid model with parameters in ordinary ranges,
\* price(Call) - price(Put) equals S e^(-qT) - K e^(-rT) within
\* 1e-6 * max(1, S e^(-qT), K e^(-rT)).
C2_ParityWithinScaledTolerance ==
  (Valid /\ BothPriced /\ Ordinary(created.val)) =>
    FLt(ParityError(created.val, quotes.price["Call"], quotes.price["Put"]),
        FMul[Lit(1, 1000000),
             FMax(OneF, FMax(DiscountedSpot(created.val), DiscountedStrike(created.val)))])

\* an ordinary model priced both ways whose parity error is not below 1e-6
C2_Witness ==
  /\ Valid
  /\ BothPriced
  /\ Ordinary(created.val)
  /\ ~FLt(ParityError(created.val, quotes.price["Call"], quotes.price["Put"]),
          Lit(1, 1000000))

BothGreeks == quotes.greeks["Call"] # Unset /\ quotes.greeks["Put"] # Unset

ReferenceModel ==
  [spot_price     |-> LitInt(100),
   strike_price   |-> LitInt(100),
   time_to_expiry |-> OneF,
   risk_free_rate |-> Lit(5, 100),
   volatility     |-> Lit(2, 10),
   dividend_yield |-> Zero]

TooSmall(v) == v.k = "fin" /\ BCmp[v.m, <<100>>] < 0

OkOf(v) == [tag |-> "Ok", val |-> v]

ErrOf(reason) == [tag |-> "Err", val |-> reason]

\* the test's call: Call, the model's own Call price, 100 iterations, 1e-6,
\* with sigma in [0.05, 1] and T in [0.01, 5]
RoundTripCall ==
  /\ Valid
  /\ inp.option_type = "Call"
  /\ inp.market = RoundTrip
  /\ inp.max_iterations = DefaultMaxIterations
  /\ inp.tolerance = DefaultTolerance
  /\ Between(Lit(5, 100), created.val.volatility, OneF)
  /\ Between(Lit(1, 100), created.val.time_to_expiry, LitInt(5))

Recovered ==
  /\ result.tag = "Ok"
  /\ FLt(FAbs[FSub[result.val, created.val.volatility]], Lit(1, 1000))

\* the test's model but for sigma and T: S = K = 100, r = 0.05, q = 0
AtTheMoney ==
  /\ created.val.spot_price = LitInt(100)
  /\ created.val.strike_price = LitInt(100)
  /\ created.val.risk_free_rate = Lit(5, 100)
  /\ created.val.dividend_yield = Zero

\* C3 as stated: for a valid model with sigma in [0.05, 1] and T in [0.01, 5],
\* implied_volatility(Call, price(Call), 100, 1e-6) returns Ok(v) with
\* |v - sigma| < 1e-3.
C3_RoundTripRecoversSigma == (pc = "done" /\ RoundTripCall) => Recovered

\* C3 as amended: the same holds for the model of the test with any sigma in
\* [0.05, 1] and T in [0.01, 5] (S = K = 100, r = 0.05, q = 0).
C3_RoundTripAtTheMoney == (pc = "done" /\ RoundTripCall /\ AtTheMoney) => Recovered

\* sigma = 0.05 recovered from the guess 0.3 after several updates
C3_Witness ==
  /\ pc = "done"
  /\ RoundTripCall
  /\ AtTheMoney
  /\ Recovered
  /\ created.val.volatility = Lit(5, 100)
  /\ evals >= 3

C4_Bounded ==
  /\ iter <= inp.max_iterations
  /\ evals <= inp.max_iterations
  /\ pc # "done" => result = None
  /\ pc = "done" =>
       \/ result.tag = "Ok" /\ result.val = last.vol
       \/ result = ErrOf(ErrVega)
       \/ result = ErrOf(ErrConverge)
  /\ result = ErrOf(ErrConverge) =>
       /\ iter = inp.max_iterations
       /\ evals = inp.max_iterations
       /\ evals > 0 =>
            /\ ~TooSmall(last.vega)
            /\ ~FLt(FAbs[last.diff], inp.tolerance)

\* the steps a call still has before it: the passes left and the return
Remaining ==
  CASE pc = "new" -> inp.max_iterations + 3
    [] pc = "ready" -> inp.max_iterations + 2
    [] pc = "loop" -> (inp.max_iterations - iter) + 1
    [] OTHER -> 0

\* C4: implied_volatility always terminates, after at most n passes of its
\* loop (at most n evaluations of price and vega), in exactly one of Ok(guess),
\* "vega too small" and "failed to converge", the last only after all n passes
\* ran with neither the tolerance met nor a vega failure.
C4_TerminatesWithinN ==
  /\ []C4_Bounded
  /\ [][ /\ Remaining' < Remaining
         /\ Remaining' >= 0
         /\ evals' \in {evals, evals + 1}
         /\ pc = "loop" => (pc' = "done" \/ iter' = iter + 1) ]_vars

\* all the passes allowed ran and the solver gave up
C4_Witness ==
  /\ pc = "done"
  /\ result = ErrOf(ErrConverge)
  /\ evals = inp.max_iterations
  /\ evals >= 2

\* C5: a pass whose raw vega satisfies |vega| < 1e-10 fails at once with
\* "vega too small": Ok is not returned from it, even with
\* |market_price - price| < tolerance, and diff / vega is not computed.
C5_SmallVegaFailsFirst ==
  (evals > 0 /\ TooSmall(last.vega)) =>
    /\ pc = "done"
    /\ result = ErrOf(ErrVega)
    /\ last.diff = Unset
    /\ vol = last.vol

\* "vega too small" from a pass in which the price matched the market price
C5_Witness ==
  /\ pc = "done"
  /\ result = ErrOf(ErrVega)
  /\ TooSmall(last.vega)
  /\ FLt(FAbs[FSub[market_price, last.price]], inp.tolerance)

\* C6: with max_iterations = 0 the loop body never runs, neither test is
\* made, and the result is "failed to converge", whatever the arguments.
C6_ZeroIterationsFail ==
  inp.max_iterations = 0 =>
    /\ evals = 0
    /\ last = NoLast
    /\ pc = "done" => result = ErrOf(ErrConverge)

\* "failed to converge" although the market price is the price at the guess 0.3
C6_Witness ==
  /\ pc = "done"
  /\ inp.max_iterations = 0
  /\ result = ErrOf(ErrConverge)
  /\ market_price = price([created.val EXCEPT !.volatility = InitialGuess], inp.option_type)

\* C7: Ok(v) returns the guess the returning pass started from (0.3 in the
\* first pass, else what the previous update or clamp left), at which
\* |market_price - price| < tolerance held; the guess the last pass of an
\* exhausted loop produced is neither evaluated nor returned.
C7_OkReturnsTestedGuess ==
  [][ /\ (result.tag # "Ok" /\ result'.tag = "Ok") =>
           /\ result'.val = vol
           /\ evals = 0 => vol = InitialGuess
           /\ last'.vol = vol
           /\ FLt(FAbs[FSub[market_price,
                            price([created.val EXCEPT !.volatility = vol],
                                  inp.option_type)]],
                  inp.tolerance)
      /\ (result # ErrOf(ErrConverge) /\ result' = ErrOf(ErrConverge)) =>
           /\ evals' = evals
           /\ last' = last
           /\ vol' = vol ]_vars

\* Ok with a guess that an update produced
C7_Witness ==
  /\ pc = "done"
  /\ result.tag = "Ok"
  /\ evals >= 2
  /\ result.val # InitialGuess

\* C8: the guess stays strictly positive throughout, so every model the
\* solver evaluates satisfies S, K, T, sigma > 0.
C8_GuessStaysPositive ==
  /\ pc \in {"loop", "done"} => Valid /\ Positive(vol)
  /\ evals > 0 => Positive(last.vol)

====
